---- MODULE Spec2Model ----
(***************************************************************************)
(* Model of the Cancel handler of the trade coordinator                    *)
(* (src/src/app/cancel.rs): one persisted order row, the replaceable order *)
(* events published for it, and the outcome of the last Cancel handled.    *)
(*                                                                         *)
(* A handler runs to completion before the ingress loop takes the next     *)
(* notification (src/src/app.rs:155-164 awaits it inline), so one Cancel   *)
(* is one atomic action.  Each backend call of the handler (escrow, order  *)
(* store, publisher) may fail; its outcome is an input of the action.      *)
(***************************************************************************)
EXTENDS Integers, Sequences, FiniteSets

VARIABLES
    order,    \* the persisted order row
    events,   \* the replaceable order events published so far, oldest first
    accepted, \* pubkeys whose cooperative Cancel was persisted for the order
    last,     \* the last Cancel handled: input, order before, effects, result
    loop,     \* the ingress loop of run(): "running", "returned" or "panicked"
    tasks,    \* the handlers dispatched and not yet completed
    notif,    \* the last notification received and what the loop did with it
    received, \* notifications received so far
    warned,   \* handler errors logged by warning_msg so far
    version,  \* writes made to the order by handlers so far
    stale,    \* a handler wrote an order another handler changed after it read
    settings, \* Settings::get_mostro(): min_payment_amount, max_order_amount
    request,  \* the NewOrder message to handle, with the backend outcomes
    placed    \* what order_action did with the request

cancelvars == <<order, events, accepted, last>>
runvars == <<loop, tasks, notif, received, warned, version, stale>>
ordervars == <<settings, request, placed>>
vars == <<order, events, accepted, last,
          loop, tasks, notif, received, warned, version, stale,
          settings, request, placed>>

\* ------------------------------------------------------------------ bounds

\* Replaceable events published over one run.
MaxEvents == 3
\* Largest satoshi amount / fee of an order.
MaxAmount == 2
\* Notifications the ingress loop receives over one run.
MaxNotifications == 3
\* Seconds by which a rumor may be older than the freshness window.
MaxLate == 1
\* Largest fiat amount (fiat_amount, min_amount, max_amount) of a new order.
MaxFiat == 2

\* ------------------------------------------------------------------ values

\* Option::None of a pubkey, hash or order id.
None == "none"

Maker == "maker"
Taker == "taker"
Stranger == "stranger"
PubKeys == {Maker, Taker, Stranger}

OrderId == "o1"
UnknownId == "o2"

HoldHash == "h1"

Kinds == {"Buy", "Sell"}

\* Variant: a cooperatively canceled order is not taken as already canceled.
CanceledStatusesButCooperative == {"Canceled", "CanceledByAdmin"}

CanceledStatuses == {"Canceled", "CooperativelyCanceled", "CanceledByAdmin"}
CooperativeStatuses == {"Active", "FiatSent", "Dispute"}
TakenStatuses == {"WaitingBuyerInvoice", "WaitingPayment"}
Statuses ==
    {"Pending"} \cup TakenStatuses \cup CooperativeStatuses \cup CanceledStatuses
        \cup {"Settled", "Completed", "SettledByAdmin", "Expired"}

\* ----------------------------------------------------------------- effects

\* What a handler does to the outside, in the order it does it.
Effect(type, to, action, reason) ==
    [type |-> type, to |-> to, action |-> action, reason |-> reason]

\* util::send_cant_do_msg(request_id, order_id, reason, pubkey)
send_cant_do_msg(reason, pubkey) == Effect("send", pubkey, "CantDo", reason)

\* util::send_new_order_msg(request_id, order_id, action, None, pubkey, None)
send_new_order_msg(action, pubkey) == Effect("send", pubkey, action, None)

LnCancel(hash, ok) ==
    Effect("cancel_hold_invoice", hash, IF ok THEN "ok" ELSE "err", None)

DbWrite(what) == Effect("db", "orders", what, None)

Published(status) == Effect("publish", "relay", status, None)

\* ------------------------------------------------------- handler context

\* A handler in progress: mem is its in-memory Order, db the persisted row,
\* ret is "run" while it executes, "ok" after return Ok(()), "err" after an
\* Err propagated with `?`.
Ctx(mem, db, evs) ==
    [mem |-> mem, db |-> db, events |-> evs, effects |-> <<>>, ret |-> "run"]

Emit(c, e) == [c EXCEPT !.effects = Append(@, e)]
Return(c, ret) == [c EXCEPT !.ret = ret]

\* ------------------------------------------------------------ order store

\* db::find_order_by_id(pool, order_id, user_pubkey): the row with that id
\* when user_pubkey is one of its participants.
find_order_by_id(db, order_id, user_pubkey) ==
    /\ order_id = db.id
    /\ user_pubkey # None
    /\ user_pubkey \in {db.buyer_pubkey, db.seller_pubkey}

\* db::edit_buyer_pubkey_order(pool, order.id, None)
edit_buyer_pubkey_order(c, pubkey) ==
    [Emit(c, DbWrite("edit_buyer_pubkey_order")) EXCEPT !.db.buyer_pubkey = pubkey]

\* db::edit_seller_pubkey_order(pool, order.id, None)
edit_seller_pubkey_order(c, pubkey) ==
    [Emit(c, DbWrite("edit_seller_pubkey_order")) EXCEPT !.db.seller_pubkey = pubkey]

\* db::update_order_to_initial_state(pool, order.id, amount, fee)
update_order_to_initial_state(c, amount, fee) ==
    [Emit(c, DbWrite("update_order_to_initial_state")) EXCEPT
        !.db.status = "Pending", !.db.amount = amount, !.db.fee = fee]

\* `order.update(pool).await?`: the whole in-memory row replaces the stored one.
OrderUpdate(c, ok) ==
    IF ok THEN [Emit(c, DbWrite("update")) EXCEPT !.db = c.mem]
    ELSE Return(c, "err")

\* Variant: the Order that update_order_event returns is dropped, not stored.
PersistOrderUpdatedNever(c, order_updated, ok) == c

\* `let _ = order_updated.update(pool).await`: a failure is ignored.
PersistOrderUpdated(c, order_updated, ok) ==
    IF ok THEN [Emit(c, DbWrite("update")) EXCEPT !.db = order_updated] ELSE c

\* -------------------------------------------------------------- publisher

NewEventId(evs) == Len(evs) + 1

\* util::update_order_event(keys, status, &order): the Order it returns, a
\* copy of `order` with the new status and the id of the event just published.
update_order_event(status, o, evs) ==
    [o EXCEPT !.status = status, !.event_id = NewEventId(evs)]

\* The replaceable event update_order_event publishes when it succeeds.
PublishOrderEvent(c, status) ==
    [Emit(c, Published(status)) EXCEPT
        !.events = Append(@, [id |-> NewEventId(c.events), status |-> status])]

\* ----------------------------------------------------------------- escrow

\* Variant: the escrow error is not propagated with `?`.
cancel_hold_invoice_unchecked(c, hash, ok) == Emit(c, LnCancel(hash, ok))

\* `ln_client.cancel_hold_invoice(hash).await?`
cancel_hold_invoice(c, hash, ok) ==
    IF ok THEN Emit(c, LnCancel(hash, TRUE))
    ELSE Return(Emit(c, LnCancel(hash, FALSE)), "err")

\* ------------------------------------------------- cancel.rs: decisions

\* Variant: a failed lookup is answered with CantDo.
OrderNotFoundReplies(c, user_pubkey) ==
    Return(Emit(c, send_cant_do_msg("IsNotYourOrder", user_pubkey)), "ok")

\* cancel.rs:37-40: the lookup failed; log and return Ok(()) without a reply.
OrderNotFound(c, user_pubkey) == Return(c, "ok")

\* Variant: every sender passes for the creator.
IsCreatorAlways(o, user_pubkey) == TRUE

\* cancel.rs:59: "Validates if this user is the order creator".
IsCreator(o, user_pubkey) == user_pubkey = o.creator_pubkey

\* Variant: both flags are raised whoever sends.
SetBothCooperativeCancelFlags(o, user_pubkey) ==
    [o EXCEPT !.buyer_cooperativecancel = TRUE, !.seller_cooperativecancel = TRUE]

\* cancel.rs:110-117: the sender's flag is raised on the in-memory order; any
\* sender that is not the buyer is taken for the seller.
SetCooperativeCancelFlag(o, user_pubkey) ==
    IF o.buyer_pubkey = user_pubkey
    THEN [o EXCEPT !.buyer_cooperativecancel = TRUE]
    ELSE [o EXCEPT !.seller_cooperativecancel = TRUE]

\* cancel.rs:110-117: the other party of the trade.
CounterpartyPubkey(o, user_pubkey) ==
    IF o.buyer_pubkey = user_pubkey THEN o.seller_pubkey ELSE o.buyer_pubkey

\* Variant: the initiator is not recognised.
IsInitiatorNever(initiator_pubkey, user_pubkey) == FALSE

\* cancel.rs:121: the initiator cannot also confirm.
IsInitiator(initiator_pubkey, user_pubkey) == initiator_pubkey = user_pubkey

\* Variant: the confirmed cancel is stored under the wrong status.
ConfirmCooperativeCancelAsCanceled(o) == [o EXCEPT !.status = "Canceled"]

\* Variant: confirming also clears the initiator.
ConfirmCooperativeCancelClearsInitiator(o) ==
    [o EXCEPT !.status = "CooperativelyCanceled", !.cancel_initiator_pubkey = None]

\* cancel.rs:134
ConfirmCooperativeCancel(o) == [o EXCEPT !.status = "CooperativelyCanceled"]

\* Variant: the first Cancel already cancels the order.
InitiateCooperativeCancelAtOnce(o, user_pubkey) ==
    [o EXCEPT !.cancel_initiator_pubkey = user_pubkey,
              !.status = "CooperativelyCanceled"]

\* cancel.rs:164
InitiateCooperativeCancel(o, user_pubkey) ==
    [o EXCEPT !.cancel_initiator_pubkey = user_pubkey]

\* Variant: the quote is forgotten whatever price_from_api says.
ResetPriceAlways(o) == [o EXCEPT !.amount = 0, !.fee = 0]

\* cancel.rs:247-250 and 329-332: a market-priced order forgets its quote.
ResetPrice(o) ==
    IF o.price_from_api THEN [o EXCEPT !.amount = 0, !.fee = 0] ELSE o

\* ------------------------------------------------ cancel.rs: the handlers

\* cancel.rs:193-270.  f holds the outcome of each backend call.
cancel_add_invoice(c0, user_pubkey, f) ==
    LET c1 == IF c0.mem.hash # None
              THEN cancel_hold_invoice(c0, c0.mem.hash, f.ln)
              ELSE c0
        o == c1.mem
    IN  IF c1.ret # "run" THEN c1
        ELSE IF o.seller_pubkey = None \/ o.buyer_pubkey = None
        THEN Return(c1, "err")
        ELSE IF o.buyer_pubkey # user_pubkey
        THEN Return(Emit(c1, send_cant_do_msg(None, user_pubkey)), "ok")
        ELSE IF o.creator_pubkey = o.buyer_pubkey
        THEN IF ~f.pub THEN Return(c1, "err")
             ELSE Return(
                    Emit(Emit(PublishOrderEvent(c1, "CooperativelyCanceled"),
                              send_new_order_msg("Canceled", user_pubkey)),
                         send_new_order_msg("Canceled", o.seller_pubkey)),
                    "ok")
        ELSE LET c2 == [c1 EXCEPT !.mem = ResetPrice(o)]
                 c3 == edit_buyer_pubkey_order(c2, None)
                 c4 == update_order_to_initial_state(c3, c2.mem.amount, c2.mem.fee)
             IN  IF ~f.db1 THEN Return(c2, "err")
                 ELSE IF ~f.db2 THEN Return(c3, "err")
                 ELSE IF ~f.pub THEN Return(c4, "err")
                 ELSE Return(
                        Emit(PublishOrderEvent(c4, "Pending"),
                             send_new_order_msg("Canceled", user_pubkey)),
                        "ok")

\* cancel.rs:272-352
cancel_pay_hold_invoice(c0, user_pubkey, f) ==
    LET o == c0.mem
        c1 == IF o.hash # None
              THEN cancel_hold_invoice(c0, o.hash, f.ln)
              ELSE c0
    IN  IF o.seller_pubkey = None \/ o.buyer_pubkey = None
        THEN Return(c0, "err")
        ELSE IF o.seller_pubkey # user_pubkey
        THEN Return(Emit(c0, send_cant_do_msg(None, user_pubkey)), "ok")
        ELSE IF c1.ret # "run" THEN c1
        ELSE IF o.creator_pubkey = o.seller_pubkey
        THEN IF ~f.pub THEN Return(c1, "err")
             ELSE Return(
                    Emit(Emit(PublishOrderEvent(c1, "Canceled"),
                              send_new_order_msg("Canceled", user_pubkey)),
                         send_new_order_msg("Canceled", o.seller_pubkey)),
                    "ok")
        ELSE LET c2 == [c1 EXCEPT !.mem = ResetPrice(o)]
                 c3 == edit_seller_pubkey_order(c2, None)
                 c4 == update_order_to_initial_state(c3, c2.mem.amount, c2.mem.fee)
             IN  IF ~f.db1 THEN Return(c2, "err")
                 ELSE IF ~f.db2 THEN Return(c3, "err")
                 ELSE IF ~f.pub THEN Return(c4, "err")
                 ELSE Return(
                        Emit(PublishOrderEvent(c4, "Pending"),
                             send_new_order_msg("Canceled", user_pubkey)),
                        "ok")

\* cancel.rs:57-86: a Pending order.
CancelPending(c, user_pubkey, f) ==
    IF ~IsCreator(c.mem, user_pubkey)
    THEN Return(Emit(c, send_cant_do_msg("IsNotYourOrder", user_pubkey)), "ok")
    ELSE LET c1 == IF f.pub
                   THEN PersistOrderUpdated(
                            PublishOrderEvent(c, "Canceled"),
                            update_order_event("Canceled", c.mem, c.events),
                            f.db1)
                   ELSE c
         IN  Return(Emit(c1, send_new_order_msg("Canceled", user_pubkey)), "ok")

\* cancel.rs:100-189: cooperative cancel of an Active, FiatSent or Dispute order.
CancelCooperative(c0, user_pubkey, f) ==
    LET o0 == c0.mem
        c1 == [c0 EXCEPT !.mem = SetCooperativeCancelFlag(o0, user_pubkey)]
        o == c1.mem
        counterparty_pubkey == CounterpartyPubkey(o0, user_pubkey)
    IN  IF o0.seller_pubkey = None \/ o0.buyer_pubkey = None
        THEN Return(c0, "err")
        ELSE IF o.cancel_initiator_pubkey # None
        THEN IF IsInitiator(o.cancel_initiator_pubkey, user_pubkey)
             THEN Return(Emit(c1, send_cant_do_msg(None, user_pubkey)), "ok")
             ELSE LET c2 == IF o.hash # None
                            THEN cancel_hold_invoice(c1, o.hash, f.ln)
                            ELSE c1
                      c3 == [c2 EXCEPT !.mem = ConfirmCooperativeCancel(o)]
                      c4 == OrderUpdate(c3, f.db1)
                  IN  IF c2.ret # "run" THEN c2
                      ELSE IF c4.ret # "run" THEN c4
                      ELSE IF ~f.pub THEN Return(c4, "err")
                      ELSE Return(
                             Emit(Emit(PublishOrderEvent(c4, "CooperativelyCanceled"),
                                       send_new_order_msg("CooperativeCancelAccepted",
                                                          user_pubkey)),
                                  send_new_order_msg("CooperativeCancelAccepted",
                                                     counterparty_pubkey)),
                             "ok")
        ELSE LET c2 == [c1 EXCEPT !.mem = InitiateCooperativeCancel(o, user_pubkey)]
                 c3 == OrderUpdate(c2, f.db1)
             IN  IF c3.ret # "run" THEN c3
                 ELSE Return(
                        Emit(Emit(c3, send_new_order_msg(
                                          "CooperativeCancelInitiatedByYou",
                                          user_pubkey)),
                             send_new_order_msg("CooperativeCancelInitiatedByPeer",
                                                counterparty_pubkey)),
                        "ok")

\* A sub-handler that returned Ok(()) hands control back to its caller.
Resume(c) == IF c.ret = "ok" THEN [c EXCEPT !.ret = "run"] ELSE c

\* cancel.rs:18-191
cancel_action(db, evs, order_id, user_pubkey, f) ==
    LET c == Ctx(db, db, evs)
    IN  IF order_id = None THEN Return(c, "err")
        ELSE IF ~find_order_by_id(db, order_id, user_pubkey)
        THEN OrderNotFound(c, user_pubkey)
        ELSE IF db.status \in CanceledStatuses
        THEN Return(Emit(c, send_cant_do_msg("OrderAlreadyCanceled", user_pubkey)),
                    "ok")
        ELSE IF db.status = "Pending" THEN CancelPending(c, user_pubkey, f)
        ELSE LET a == IF c.mem.kind = "Sell" /\ c.mem.status = "WaitingBuyerInvoice"
                      THEN Resume(cancel_add_invoice(c, user_pubkey, f))
                      ELSE c
                 b == IF a.ret = "run" /\ a.mem.kind = "Buy"
                         /\ a.mem.status = "WaitingPayment"
                      THEN Resume(cancel_pay_hold_invoice(a, user_pubkey, f))
                      ELSE a
             IN  IF b.ret # "run" THEN b
                 ELSE IF b.mem.status \in CooperativeStatuses
                 THEN CancelCooperative(b, user_pubkey, f)
                 ELSE Return(b, "ok")

\* ------------------------------------------------- app.rs: ingress loop

\* app.rs:142: the anti-replay window, in seconds.
FreshnessWindow == 10

\* chrono::Utc::now().timestamp() when the notification is processed.
Clock == FreshnessWindow + MaxLate

Ages == {0} \cup (FreshnessWindow..(FreshnessWindow + MaxLate))

\* Actions a rumor may carry: two with a handler, the reserved PayInvoice,
\* and one the dispatcher has no arm for.
Actions == {"Cancel", "NewOrder", "PayInvoice", "CantDo"}

\* app.rs:74-95: the actions routed to a handler.
HandlerActions == {"Cancel", "NewOrder"}

\* A relay notification as the loop examines it.  pow, giftwrap and sig
\* belong to the outer event; unwrap tells whether it decrypts to a rumor;
\* created_at, json (the content parses), verify and action belong to the
\* rumor and keep their defaults when there is none.
Notification(pow, giftwrap, sig, unwrap, created_at, json, verify, action) ==
    [ pow |-> pow, giftwrap |-> giftwrap, sig |-> sig, unwrap |-> unwrap,
      created_at |-> created_at, json |-> json, verify |-> verify,
      action |-> action ]

Notifications ==
    { Notification(p, g, sg, FALSE, Clock, TRUE, TRUE, None) :
        p \in BOOLEAN, g \in BOOLEAN, sg \in BOOLEAN }
    \cup
    { Notification(p, g, sg, TRUE, Clock - a, FALSE, TRUE, None) :
        p \in BOOLEAN, g \in BOOLEAN, sg \in BOOLEAN, a \in Ages }
    \cup
    { Notification(p, g, sg, TRUE, Clock - a, TRUE, v, act) :
        p \in BOOLEAN, g \in BOOLEAN, sg \in BOOLEAN, a \in Ages,
        v \in BOOLEAN, act \in Actions \cup {None} }

\* Variant: no rumor is ever too old.
IsStaleNever(created_at, since_time) == FALSE

\* app.rs:145: `event.rumor.created_at.as_u64() < since_time`
IsStale(created_at, since_time) == created_at < since_time

\* app.rs:141-144: now - 10 s
SinceTime(now) == now - FreshnessWindow

\* app.rs:72-101: what routing the action does: "handler" runs one of the
\* handlers, "panic" is the todo!() of PayInvoice, "logged" the default arm.
handle_message_action(action) ==
    IF action \in HandlerActions THEN "handler"
    ELSE IF action = "PayInvoice" THEN "panic"
    ELSE "logged"

\* app.rs:126-176: one turn of the loop body, up to the dispatch.
Ingress(m) ==
    IF ~m.pow THEN "drop_pow"
    ELSE IF ~m.giftwrap THEN "skip_kind"
    ELSE IF ~m.unwrap THEN "return_err"
    ELSE IF IsStale(m.created_at, SinceTime(Clock)) THEN "drop_stale"
    ELSE IF ~m.json THEN "drop_json"
    ELSE IF ~m.verify THEN "drop_verify"
    ELSE IF m.action = None THEN "drop_no_action"
    ELSE handle_message_action(m.action)

\* Variant: each handler is spawned as a task and the loop goes on.
CanReceiveWhileBusy(ts) == TRUE

\* app.rs:155-164: the handler is awaited inside the loop body, so the next
\* notifications.recv() happens only after it completed.
CanReceive(ts) == ts = {}

NoNotification ==
    [ m |-> Notification(TRUE, TRUE, TRUE, TRUE, Clock, TRUE, TRUE, None),
      fate |-> "none", version |-> 0 ]

InitRun ==
    /\ loop = "running"
    /\ tasks = {}
    /\ notif = NoNotification
    /\ received = 0
    /\ warned = 0
    /\ version = 0
    /\ stale = FALSE

\* app.rs:125-176: the loop receives a notification and either drops it,
\* leaves run() with the error of unwrap_gift_wrap, panics in the
\* dispatcher, or starts the handler of its action.
Receive(m) ==
    /\ loop = "running"
    /\ received < MaxNotifications
    /\ CanReceive(tasks)
    /\ received' = received + 1
    /\ notif' = [m |-> m, fate |-> Ingress(m), version |-> version]
    /\ loop' = CASE Ingress(m) = "return_err" -> "returned"
                 [] Ingress(m) = "panic" -> "panicked"
                 [] OTHER -> "running"
    /\ tasks' = IF Ingress(m) = "handler"
                THEN tasks \cup {[ id |-> received + 1, action |-> m.action,
                                   pc |-> "start", seen |-> 0 ]}
                ELSE tasks
    /\ UNCHANGED <<warned, version, stale>>
    /\ UNCHANGED cancelvars
    /\ UNCHANGED ordervars

\* A handler reads the order (find_order_by_id) and is suspended at that or
\* a later database, escrow or publisher call.
HandlerRead(t) ==
    /\ t \in tasks
    /\ t.pc = "start"
    /\ tasks' = (tasks \ {t}) \cup {[t EXCEPT !.pc = "suspended", !.seen = version]}
    /\ UNCHANGED <<loop, notif, received, warned, version, stale>>
    /\ UNCHANGED cancelvars
    /\ UNCHANGED ordervars

\* The handler completes: it may have written the order, and returns Ok or
\* Err; app.rs:165-167 logs an Err with warning_msg and the loop goes on.
HandlerFinish(t, writes, ok) ==
    /\ t \in tasks
    /\ t.pc = "suspended"
    /\ tasks' = tasks \ {t}
    /\ version' = IF writes THEN version + 1 ELSE version
    /\ stale' = (stale \/ (writes /\ t.seen # version))
    /\ warned' = IF ok THEN warned ELSE warned + 1
    /\ UNCHANGED <<loop, notif, received>>
    /\ UNCHANGED cancelvars
    /\ UNCHANGED ordervars

NextRun ==
    \/ \E m \in Notifications : Receive(m)
    \/ \E t \in tasks : HandlerRead(t)
    \/ \E t \in tasks, writes \in BOOLEAN, ok \in BOOLEAN :
          HandlerFinish(t, writes, ok)

\* ---------------------------------------------- order.rs: order_action

\* order.rs:96: satoshis per bitcoin (1E8).
SatsPerBtc == 100000000

\* Prices of one bitcoin in the fiat currency that get_bitcoin_price returns.
Prices == {SatsPerBtc \div 2, SatsPerBtc, 2 * SatsPerBtc}

FiatAmounts == (-1)..MaxFiat

SatAmounts == (-1)..MaxAmount

\* Settings::get_mostro(): the configured floor and ceiling, in satoshis.
MostroSettings ==
    [ min_payment_amount : {1, MaxAmount},
      max_order_amount : {MaxAmount, MaxAmount + 1} ]

\* A NewOrder message and the outcomes of the calls its handler makes:
\* invoice_ok (no payment request, or is_valid_invoice accepts it), price
\* (get_bitcoin_price: a price, or None for Err), short (whether the f64
\* evaluation of an endpoint's quote falls just below an integral exact
\* value), publish_ok (publish_order returns Ok).
NewOrderRequest(has, fiat, min, max, amount, premium, inv, price, short, pub) ==
    [ has_order |-> has, fiat_amount |-> fiat,
      min_amount |-> min, max_amount |-> max,
      amount |-> amount, premium |-> premium, invoice_ok |-> inv,
      price |-> price, short |-> short, publish_ok |-> pub ]

NoShort == <<FALSE, FALSE>>

\* Option<i64> of min_amount and max_amount, and the Result of the oracle:
\* the empty sequence is None / Err, a one-element sequence Some / Ok.
Absent == <<>>

Some(v) == <<v>>

OptionalFiat == {Absent} \cup {Some(v) : v \in 1..MaxFiat}

NoRequest ==
    NewOrderRequest(FALSE, 0, Absent, Absent, 0, 0, TRUE, Absent, NoShort, TRUE)

Requests ==
    {NoRequest}
    \cup
    { NewOrderRequest(TRUE, fa, mn, mx, am, pr, inv, Absent, NoShort, TRUE) :
        fa \in FiatAmounts, mn \in OptionalFiat, mx \in OptionalFiat,
        am \in SatAmounts, pr \in {0, 1}, inv \in BOOLEAN }
    \cup
    { NewOrderRequest(TRUE, fa, mx[1], mx[2], am, pr, TRUE, Some(price), sh, pub) :
        fa \in FiatAmounts, mx \in OptionalFiat \X OptionalFiat,
        am \in SatAmounts, pr \in {0, 1}, price \in Prices,
        sh \in {<<a, b>> : a \in BOOLEAN, b \in BOOLEAN}, pub \in BOOLEAN }

\* What the handler did: the CantDo reason sent (or None), the quotes it
\* checked, whether publish_order published the order, and its result.
Placed(reply, quotes, published, ret) ==
    [ reply |-> reply, quotes |-> quotes, published |-> published, ret |-> ret ]

NotPlaced == Placed(None, <<>>, FALSE, "none")

\* Variant: the bounds of a range are never looked at.
IsRangeNever(o) == FALSE

\* order.rs:49: `if let (Some(min), Some(max)) = (order.min_amount, order.max_amount)`
IsRange(o) == o.min_amount # Absent /\ o.max_amount # Absent

\* order.rs:45-74: the fiat amounts to quote.
AmountVec(o) ==
    IF IsRange(o)
    THEN <<o.min_amount[1], o.max_amount[1]>>
    ELSE <<o.fiat_amount>>

\* `as i64` of a quotient: truncation toward zero.
TruncDiv(a, b) == IF a >= 0 THEN a \div b ELSE 0 - ((0 - a) \div b)

\* order.rs:94-97: `(*fiat_amount as f64 / price * 1E8) as i64`.  When the
\* exact value is a non-zero integer the f64 product may fall just below it
\* in magnitude (3.0 / 1E8 * 1E8 is 2.9999999999999996), and the cast then
\* yields one less.
QuoteFromPrice(fiat_amount, price, short) ==
    LET exact == TruncDiv(fiat_amount * SatsPerBtc, price)
        whole == (IF fiat_amount >= 0 THEN fiat_amount ELSE 0 - fiat_amount)
                     * SatsPerBtc % price = 0
    IN  IF short /\ whole /\ exact # 0
        THEN (IF exact > 0 THEN exact - 1 ELSE exact + 1)
        ELSE exact

\* order.rs:92-104: the quote of one fiat amount.
Quote(o, i) ==
    IF o.amount = 0
    THEN QuoteFromPrice(AmountVec(o)[i], o.price[1], o.short[i])
    ELSE o.amount

\* Variant: only the ceiling is checked.
QuoteOutOfRangeCeilingOnly(quote, s) == quote > s.max_order_amount

\* order.rs:119-120
QuoteOutOfRange(quote, s) ==
    quote > s.max_order_amount \/ quote < s.min_payment_amount

\* order.rs:91-131: the loop over amount_vec from its i-th element, having
\* checked `quotes`; then 133-143, publish_order.
RECURSIVE CheckQuotes(_, _, _, _)
CheckQuotes(o, s, i, quotes) ==
    IF i > Len(AmountVec(o))
    THEN IF o.publish_ok
         THEN Placed(None, quotes, TRUE, "ok")
         ELSE Placed(None, quotes, FALSE, "err")
    ELSE IF o.amount = 0 /\ o.price = Absent
    THEN Placed(None, quotes, FALSE, "ok")
    ELSE LET quote == Quote(o, i)
         IN  IF quote < 0
             THEN Placed("InvalidAmount", Append(quotes, quote), FALSE, "ok")
             ELSE IF QuoteOutOfRange(quote, s)
             THEN Placed("OutOfRangeSatsAmount", Append(quotes, quote), FALSE, "ok")
             ELSE CheckQuotes(o, s, i + 1, Append(quotes, quote))

\* order.rs:12-146
order_action(o, s) ==
    IF ~o.has_order THEN Placed(None, <<>>, FALSE, "ok")
    ELSE IF ~o.invoice_ok THEN Placed("InvalidAmount", <<>>, FALSE, "ok")
    ELSE IF IsRange(o) /\ o.min_amount[1] >= o.max_amount[1]
    THEN Placed("InvalidAmount", <<>>, FALSE, "ok")
    ELSE IF IsRange(o) /\ o.amount # 0
    THEN Placed("InvalidAmount", <<>>, FALSE, "ok")
    ELSE IF o.premium # 0 /\ o.fiat_amount # 0 /\ o.amount # 0
    THEN Placed("InvalidParameters", <<>>, FALSE, "ok")
    ELSE CheckQuotes(o, s, 1, <<>>)

\* No NewOrder is being handled.
IdleOrder ==
    /\ settings = [min_payment_amount |-> 1, max_order_amount |-> MaxAmount]
    /\ request = NoRequest
    /\ placed = NotPlaced

\* app.rs:74: a NewOrder message is handled by order_action.
NewOrder ==
    /\ placed.ret = "none"
    /\ placed' = order_action(request, settings)
    /\ UNCHANGED <<settings, request>>
    /\ UNCHANGED cancelvars
    /\ UNCHANGED runvars

\* ------------------------------------------------------------ state machine

Amounts == 1..MaxAmount

\* An order row as the handlers that create and take orders leave it: the
\* creator of a Sell order is its seller and the creator of a Buy order its
\* buyer; the other side is the taker, absent until the order is taken.
OrderRow(kind, status, taken, price_from_api, amount, fee, hash, initiator, agreed) ==
    LET seller == IF kind = "Sell" THEN Maker ELSE IF taken THEN Taker ELSE None
        buyer == IF kind = "Buy" THEN Maker ELSE IF taken THEN Taker ELSE None
    IN  [ id |-> OrderId,
          kind |-> kind,
          status |-> status,
          creator_pubkey |-> Maker,
          seller_pubkey |-> seller,
          buyer_pubkey |-> buyer,
          price_from_api |-> price_from_api,
          amount |-> amount,
          fee |-> fee,
          hash |-> hash,
          cancel_initiator_pubkey |-> initiator,
          buyer_cooperativecancel |->
              initiator # None /\ (agreed \/ initiator = buyer),
          seller_cooperativecancel |->
              initiator # None /\ (agreed \/ initiator = seller),
          event_id |-> 1 ]

InitialOrders ==
    \* a listing nobody took: a market-priced one has no quote yet
    { OrderRow(k, s, FALSE, FALSE, a, fe, None, None, FALSE) :
        k \in Kinds, s \in {"Pending", "Canceled", "Expired"},
        a \in Amounts, fe \in Amounts }
    \cup
    { OrderRow(k, s, FALSE, TRUE, 0, 0, None, None, FALSE) :
        k \in Kinds, s \in {"Pending", "Canceled", "Expired"} }
    \cup
    \* taken, the hold invoice not yet accepted
    { OrderRow(k, s, TRUE, p, a, fe, h, None, FALSE) :
        k \in Kinds, s \in TakenStatuses \cup {"Canceled", "Expired"},
        p \in BOOLEAN, a \in Amounts, fe \in Amounts, h \in {None, HoldHash} }
    \cup
    \* the hold invoice was accepted and the trade is live
    { OrderRow(k, s, TRUE, p, a, fe, HoldHash, None, FALSE) :
        k \in Kinds, s \in CooperativeStatuses,
        p \in BOOLEAN, a \in Amounts, fe \in Amounts }
    \cup
    \* the trade ended, with or without a cooperative cancel left half-way
    { OrderRow(k, s, TRUE, p, a, a, HoldHash, i, FALSE) :
        k \in Kinds,
        s \in {"CanceledByAdmin", "Settled", "Completed", "SettledByAdmin"},
        p \in BOOLEAN, a \in Amounts, i \in {None, Maker, Taker} }
    \cup
    \* both parties agreed to cancel
    { OrderRow(k, "CooperativelyCanceled", TRUE, p, a, a, HoldHash, i, TRUE) :
        k \in Kinds, p \in BOOLEAN, a \in Amounts, i \in {Maker, Taker} }

\* The outcome of the backend calls of one handler: the escrow call, the
\* first and second order-store call, the publisher.
Outcomes == [ln : BOOLEAN, db1 : BOOLEAN, db2 : BOOLEAN, pub : BOOLEAN]

AllOk(f) == f.ln /\ f.db1 /\ f.db2 /\ f.pub

NoCancel(o) ==
    [ user_pubkey |-> None, order_id |-> None, all_ok |-> TRUE,
      pre |-> o, effects |-> <<>>, ret |-> "none" ]

Init ==
    /\ order \in InitialOrders
    /\ events = <<[id |-> 1, status |-> order.status]>>
    /\ accepted = IF order.status = "CooperativelyCanceled"
                  THEN {order.buyer_pubkey, order.seller_pubkey}
                  ELSE {}
    /\ last = NoCancel(order)
    /\ InitRun
    /\ IdleOrder

\* One Cancel message taken by the ingress loop and handled to completion.
Cancel(user_pubkey, order_id, f) ==
    /\ Len(events) < MaxEvents
    /\ LET c == cancel_action(order, events, order_id, user_pubkey, f)
       IN  /\ order' = c.db
           /\ events' = c.events
           /\ accepted' = IF c.db # order \/ c.events # events
                          THEN accepted \cup {user_pubkey}
                          ELSE accepted
           /\ last' = [ user_pubkey |-> user_pubkey, order_id |-> order_id,
                        all_ok |-> AllOk(f), pre |-> order,
                        effects |-> c.effects, ret |-> c.ret ]
    /\ UNCHANGED runvars
    /\ UNCHANGED ordervars

Next ==
    \E user_pubkey \in PubKeys, order_id \in {OrderId, UnknownId, None},
       f \in Outcomes :
        Cancel(user_pubkey, order_id, f)

Spec == Init /\ [][Next]_vars

\* The ingress loop alone, over an order store seen only through the number
\* of writes made to the order.
InitIngress ==
    /\ order = OrderRow("Sell", "Active", TRUE, FALSE, 1, 1, HoldHash, None, FALSE)
    /\ events = <<[id |-> 1, status |-> order.status]>>
    /\ accepted = {}
    /\ last = NoCancel(order)
    /\ InitRun
    /\ IdleOrder

SpecRun == InitIngress /\ [][NextRun]_vars

\* The NewOrder handler alone, applied to one request under one
\* configuration.
InitOrder ==
    /\ order = OrderRow("Sell", "Active", TRUE, FALSE, 1, 1, HoldHash, None, FALSE)
    /\ events = <<[id |-> 1, status |-> order.status]>>
    /\ accepted = {}
    /\ last = NoCancel(order)
    /\ InitRun
    /\ settings \in MostroSettings
    /\ request \in Requests
    /\ placed = NotPlaced

NextOrder == NewOrder

SpecOrder == InitOrder /\ [][NextOrder]_vars

\* ------------------------------------------------------------- properties

\* The last Cancel was looked up for the stored order.
Handled == last.ret # "none" /\ last.order_id = OrderId

Parties(o) == {o.buyer_pubkey, o.seller_pubkey} \ {None}

EffectsOfType(type) ==
    {i \in 1..Len(last.effects) : last.effects[i].type = type}

SentActions(action) ==
    {i \in 1..Len(last.effects) :
        last.effects[i].type = "send" /\ last.effects[i].action = action}

\* The last Cancel came from a party of a live trade.
CooperativeCase ==
    /\ Handled
    /\ last.pre.status \in CooperativeStatuses
    /\ last.user_pubkey \in Parties(last.pre)

\* The last Cancel came from the taker of an order that is not yet Active, in
\* the state in which the taker is the one to act.
TakerCase ==
    /\ Handled
    /\ last.user_pubkey # last.pre.creator_pubkey
    /\ \/ /\ last.pre.kind = "Sell"
          /\ last.pre.status = "WaitingBuyerInvoice"
          /\ last.user_pubkey = last.pre.buyer_pubkey
       \/ /\ last.pre.kind = "Buy"
          /\ last.pre.status = "WaitingPayment"
          /\ last.user_pubkey = last.pre.seller_pubkey

\* C1: an order is CooperativelyCanceled, in the store or in a published order
\* event, only when Cancel messages of both its buyer and its seller, two
\* distinct pubkeys, were accepted for it.
C1_CooperativelyCanceledNeedsBothParties ==
    (\/ order.status = "CooperativelyCanceled"
     \/ \E i \in 1..Len(events) : events[i].status = "CooperativelyCanceled")
    => /\ order.buyer_pubkey # None
       /\ order.seller_pubkey # None
       /\ order.buyer_pubkey # order.seller_pubkey
       /\ {order.buyer_pubkey, order.seller_pubkey} \subseteq accepted

C1_Witness ==
    /\ Handled
    /\ last.pre.status \in CooperativeStatuses
    /\ order.status = "CooperativelyCanceled"
    /\ \E i \in 1..Len(events) : events[i].status = "CooperativelyCanceled"

\* C2: once cancel_initiator_pubkey holds a pubkey, no Cancel, whoever sends
\* it and whatever the status, changes or clears it.
C2_InitiatorLatch ==
    (last.ret # "none" /\ last.pre.cancel_initiator_pubkey # None)
    => order.cancel_initiator_pubkey = last.pre.cancel_initiator_pubkey

C2_Witness ==
    /\ CooperativeCase
    /\ last.pre.cancel_initiator_pubkey # None
    /\ last.user_pubkey # last.pre.cancel_initiator_pubkey
    /\ order.status = "CooperativelyCanceled"

\* C3: in Active, FiatSent or Dispute with the initiator set, a further Cancel
\* of the initiator gets CantDo(null) and nothing else happens: the stored
\* order is unchanged, no cancel(hash) is issued, nothing is published and
\* nothing is sent to the counterparty.
C3_InitiatorCannotConfirm ==
    (CooperativeCase /\ last.pre.cancel_initiator_pubkey = last.user_pubkey)
    => /\ last.ret = "ok"
       /\ last.effects = <<send_cant_do_msg(None, last.user_pubkey)>>
       /\ order = last.pre

C3_Witness ==
    /\ CooperativeCase
    /\ last.pre.cancel_initiator_pubkey = last.user_pubkey
    /\ last.pre.status = "FiatSent"

\* The effects of a confirmed cooperative cancel, in order.
ConfirmedEffects(o, user_pubkey) ==
    << LnCancel(o.hash, TRUE),
       DbWrite("update"),
       Published("CooperativelyCanceled"),
       send_new_order_msg("CooperativeCancelAccepted", user_pubkey),
       send_new_order_msg("CooperativeCancelAccepted",
                          CounterpartyPubkey(o, user_pubkey)) >>

\* The last Cancel came from the counterparty of the initiator.
CounterpartyCase ==
    /\ CooperativeCase
    /\ last.pre.cancel_initiator_pubkey # None
    /\ last.user_pubkey # last.pre.cancel_initiator_pubkey

\* C4: when the counterparty of the initiator sends Cancel in Active, FiatSent
\* or Dispute, the status becomes CooperativelyCanceled only after cancel(hash)
\* was issued and succeeded; CooperativeCancelAccepted is only sent after
\* that, to both parties, and is sent whenever the handler completes; if
\* cancel(hash) fails the stored order is unchanged and no
\* CooperativeCancelAccepted is sent.
C4_CounterpartyConfirms ==
    CounterpartyCase
    => /\ order.status = "CooperativelyCanceled"
          => \E i, j \in 1..Len(last.effects) :
                /\ i < j
                /\ last.effects[i] = LnCancel(last.pre.hash, TRUE)
                /\ last.effects[j] = DbWrite("update")
       /\ SentActions("CooperativeCancelAccepted") # {}
          => /\ order.status = "CooperativelyCanceled"
             /\ last.effects = ConfirmedEffects(last.pre, last.user_pubkey)
       /\ (last.all_ok \/ last.ret = "ok")
          => /\ order.status = "CooperativelyCanceled"
             /\ last.effects = ConfirmedEffects(last.pre, last.user_pubkey)
       /\ LnCancel(last.pre.hash, FALSE) \in
              {last.effects[i] : i \in 1..Len(last.effects)}
          => /\ order = last.pre
             /\ SentActions("CooperativeCancelAccepted") = {}
             /\ EffectsOfType("publish") = {}

C4_Witness ==
    /\ CounterpartyCase
    /\ last.pre.status = "Dispute"
    /\ order.status = "CooperativelyCanceled"
    /\ Len(last.effects) = 5

C4_WitnessEscrowFails ==
    /\ CounterpartyCase
    /\ last.effects = <<LnCancel(last.pre.hash, FALSE)>>

\* C5: in Active, FiatSent or Dispute with no initiator, the first Cancel of
\* the buyer or the seller leaves the status unchanged and issues no
\* cancel(hash); it stores the sender as initiator and raises the sender's
\* flag only, then sends CooperativeCancelInitiatedByYou to the sender and
\* CooperativeCancelInitiatedByPeer to the counterparty.  When the order
\* store refuses the update, nothing is stored and nothing is sent.
C5_FirstCancelInitiates ==
    (CooperativeCase /\ last.pre.cancel_initiator_pubkey = None)
    => /\ order.status = last.pre.status
       /\ EffectsOfType("cancel_hold_invoice") = {}
       /\ EffectsOfType("publish") = {}
       /\ (last.all_ok \/ last.ret = "ok")
          => /\ order =
                  [last.pre EXCEPT
                     !.cancel_initiator_pubkey = last.user_pubkey,
                     !.buyer_cooperativecancel =
                         (last.user_pubkey = last.pre.buyer_pubkey),
                     !.seller_cooperativecancel =
                         (last.user_pubkey = last.pre.seller_pubkey)]
             /\ last.effects =
                  << DbWrite("update"),
                     send_new_order_msg("CooperativeCancelInitiatedByYou",
                                        last.user_pubkey),
                     send_new_order_msg("CooperativeCancelInitiatedByPeer",
                                        CounterpartyPubkey(last.pre,
                                                           last.user_pubkey)) >>
       /\ last.ret = "err" => (order = last.pre /\ last.effects = <<>>)

C5_Witness ==
    /\ CooperativeCase
    /\ last.pre.cancel_initiator_pubkey = None
    /\ last.user_pubkey = last.pre.seller_pubkey
    /\ order.cancel_initiator_pubkey = last.user_pubkey
    /\ order.seller_cooperativecancel
    /\ ~order.buyer_cooperativecancel

\* C6: a Cancel of a sender that is neither buyer, seller nor creator of the
\* order, or that names an unknown order id, changes nothing, issues no
\* escrow call, publishes nothing and gets no reply, in every status.
C6_StrangerIsIgnored ==
    (/\ last.ret # "none"
     /\ \/ last.order_id = UnknownId
        \/ last.user_pubkey \notin
              Parties(last.pre) \cup {last.pre.creator_pubkey})
    => /\ order = last.pre
       /\ last.effects = <<>>

C6_Witness ==
    /\ Handled
    /\ last.ret = "ok"
    /\ last.user_pubkey = Stranger
    /\ last.pre.status = "Active"
    /\ last.pre.cancel_initiator_pubkey = Taker

C6_WitnessUnknownId ==
    /\ last.ret = "ok"
    /\ last.order_id = UnknownId
    /\ last.user_pubkey = Maker
    /\ last.pre.status = "Pending"

\* The stored pubkey of the role the creator plays in the order.
CreatorRolePubkey(o) == IF o.kind = "Sell" THEN o.seller_pubkey ELSE o.buyer_pubkey

\* The stored pubkey of the role the taker plays in the order.
TakerRolePubkey(o) == IF o.kind = "Sell" THEN o.buyer_pubkey ELSE o.seller_pubkey

\* C7: when the taker cancels a taken order that is not yet Active (the buyer
\* of a Sell order in WaitingBuyerInvoice, the seller of a Buy order in
\* WaitingPayment), the creator's pubkey and role are never touched and the
\* quote is only ever reset for a price_from_api order; when the handler
\* completes, the order is Pending again, the taker's pubkey is cleared,
\* amount and fee are 0 exactly when price_from_api (kept otherwise), and a
\* new order event with status Pending was published.
C7_TakerCancelRepublishes ==
    TakerCase
    => /\ order.creator_pubkey = last.pre.creator_pubkey
       /\ order.kind = last.pre.kind
       /\ CreatorRolePubkey(order) = last.pre.creator_pubkey
       /\ ~last.pre.price_from_api
          => (order.amount = last.pre.amount /\ order.fee = last.pre.fee)
       /\ (last.all_ok \/ last.ret = "ok")
          => /\ order.status = "Pending"
             /\ TakerRolePubkey(order) = None
             /\ IF last.pre.price_from_api
                THEN order.amount = 0 /\ order.fee = 0
                ELSE order.amount = last.pre.amount /\ order.fee = last.pre.fee
             /\ EffectsOfType("publish") # {}
             /\ events[Len(events)].status = "Pending"
             /\ events[Len(events)].id \notin
                   {events[i].id : i \in 1..(Len(events) - 1)}

C7_Witness ==
    /\ TakerCase
    /\ last.ret = "ok"
    /\ order.status = "Pending"
    /\ last.pre.amount # 0
    /\ order.amount = 0

C7_WitnessFixedPrice ==
    /\ TakerCase
    /\ last.ret = "ok"
    /\ last.pre.kind = "Buy"
    /\ order.status = "Pending"
    /\ order.amount = last.pre.amount
    /\ order.amount # 0

\* The last Cancel came from the creator of a taken order that is not yet
\* Active.
CreatorCase ==
    /\ Handled
    /\ last.pre.status \in TakenStatuses
    /\ last.pre.buyer_pubkey # None
    /\ last.pre.seller_pubkey # None
    /\ last.user_pubkey = last.pre.creator_pubkey

\* C8: when the creator cancels a taken order that is not yet Active
\* (WaitingBuyerInvoice or WaitingPayment) and no backend call fails, the
\* stored status is Canceled and the hold invoice, if any, was cancelled.
C8_CreatorCancelTerminates ==
    (CreatorCase /\ last.all_ok)
    => /\ order.status = "Canceled"
       /\ last.pre.hash # None
          => LnCancel(last.pre.hash, TRUE) \in
                {last.effects[i] : i \in 1..Len(last.effects)}

\* C9: a Cancel of the seller in WaitingPayment, or of the buyer in
\* WaitingBuyerInvoice, moves the order to Canceled or Pending when no
\* backend call fails, whatever the order kind.
C9_TakenOrderCancelMoves ==
    (/\ Handled
     /\ last.all_ok
     /\ \/ last.pre.status = "WaitingPayment"
           /\ last.user_pubkey = last.pre.seller_pubkey
        \/ last.pre.status = "WaitingBuyerInvoice"
           /\ last.user_pubkey = last.pre.buyer_pubkey)
    => order.status \in {"Canceled", "Pending"}

\* C10: in Pending, a Cancel of the creator moves the order to Canceled,
\* publishes the cancel event and stores the id of that event, then tells
\* the creator; the handler answers any other sender with
\* CantDo(IsNotYourOrder) and leaves the order as it is.
C10_PendingCancel ==
    /\ (Handled /\ last.pre.status = "Pending"
          /\ last.user_pubkey = last.pre.creator_pubkey /\ last.all_ok)
       => /\ last.ret = "ok"
          /\ last.effects =
               << Published("Canceled"), DbWrite("update"),
                  send_new_order_msg("Canceled", last.user_pubkey) >>
          /\ events[Len(events)].status = "Canceled"
          /\ events[Len(events)].id \notin
                {events[i].id : i \in 1..(Len(events) - 1)}
          /\ order = [last.pre EXCEPT !.status = "Canceled",
                                      !.event_id = events[Len(events)].id]
    /\ order.status = "Pending"
       => \A user_pubkey \in PubKeys \ {order.creator_pubkey}, f \in Outcomes :
             LET c == CancelPending(Ctx(order, order, events), user_pubkey, f)
             IN  /\ c.ret = "ok"
                 /\ c.db = order
                 /\ c.events = events
                 /\ c.effects = <<send_cant_do_msg("IsNotYourOrder", user_pubkey)>>

C10_Witness ==
    /\ Handled
    /\ last.pre.status = "Pending"
    /\ last.user_pubkey = last.pre.creator_pubkey
    /\ order.status = "Canceled"
    /\ order.event_id = Len(events)
    /\ order.event_id # last.pre.event_id

ListingStatuses == {"Pending"} \cup TakenStatuses

\* C11: a Cancel sent by a key other than the order's creator never moves an
\* order that is Pending, WaitingBuyerInvoice or WaitingPayment to Canceled
\* (the order stays in one of these three statuses, so neither does any
\* sequence of such Cancels), and publishes no Canceled event; after a
\* taker's Cancel that completes the listing is Pending again, its creator
\* and the creator's role unchanged.
C11_OnlyMakerCancelsListing ==
    /\ (/\ last.ret # "none"
        /\ last.user_pubkey # last.pre.creator_pubkey
        /\ last.pre.status \in ListingStatuses)
       => /\ order.status \in ListingStatuses
          /\ order.creator_pubkey = last.pre.creator_pubkey
          /\ \A i \in EffectsOfType("publish") :
                last.effects[i].action # "Canceled"
    /\ (TakerCase /\ (last.all_ok \/ last.ret = "ok"))
       => /\ order.status = "Pending"
          /\ order.creator_pubkey = last.pre.creator_pubkey
          /\ CreatorRolePubkey(order) = last.pre.creator_pubkey
    /\ order.status = "Pending"
       => \A user_pubkey \in PubKeys \ {order.creator_pubkey}, f \in Outcomes :
             LET c == CancelPending(Ctx(order, order, events), user_pubkey, f)
             IN  c.db.status = "Pending" /\ c.events = events

\* The taker walked, then sent Cancel again: the listing is still Pending.
C11_Witness ==
    /\ last.ret = "ok"
    /\ last.order_id = OrderId
    /\ last.user_pubkey = Taker
    /\ last.pre.status = "Pending"
    /\ Len(events) = 2
    /\ events[1].status \in TakenStatuses
    /\ order.status = "Pending"
    /\ order.creator_pubkey = Maker

\* The status changes a Cancel may make (spec 4.2).
LegalCancelTransitions ==
    {<<"Pending", "Canceled">>}
    \cup {<<s, t>> : s \in TakenStatuses, t \in {"Canceled", "Pending"}}
    \cup {<<s, "CooperativelyCanceled">> : s \in CooperativeStatuses}

\* Pairs joined by a path of legal Cancel transitions (no path is longer
\* than two steps: Canceled and CooperativelyCanceled have no successor).
LegalCancelPaths ==
    {<<s, s>> : s \in Statuses}
    \cup LegalCancelTransitions
    \cup {<<s, t>> \in Statuses \X Statuses :
            \E m \in Statuses : /\ <<s, m>> \in LegalCancelTransitions
                                /\ <<m, t>> \in LegalCancelTransitions}

\* C12: every change of the stored status made by a Cancel, and every status
\* a Cancel publishes, is one of Pending->Canceled,
\* WaitingBuyerInvoice->{Canceled, Pending}, WaitingPayment->{Canceled,
\* Pending}, {Active, FiatSent, Dispute}->CooperativelyCanceled; so the
\* stored status is always joined to the initial one by a legal path.
C12_LegalTransitions ==
    /\ last.ret # "none"
       => /\ \/ order.status = last.pre.status
             \/ <<last.pre.status, order.status>> \in LegalCancelTransitions
          /\ \A i \in EffectsOfType("publish") :
                <<last.pre.status, last.effects[i].action>>
                    \in LegalCancelTransitions
    /\ <<events[1].status, order.status>> \in LegalCancelPaths

C12_Witness ==
    /\ events[1].status = "WaitingPayment"
    /\ last.pre.status = "Pending"
    /\ order.status = "Canceled"

\* ------------------------------------------------------ ingress loop claims

\* Fates in which the notification reached handle_message_action.
Dispatched == {"handler", "panic", "logged"}

\* The last notification was received and examined by the loop.
Examined == notif.fate # "none"

\* C13: handlers of messages on one order are serialised: no handler writes
\* an order that another handler changed after it read it, and no two
\* handlers are in flight together, so their effects are linearisable in the
\* order the messages were received.
C13_HandlersSerialised ==
    /\ ~stale
    /\ \A t1 \in tasks, t2 \in tasks : t1 = t2
    /\ \A t \in tasks : t.pc = "suspended" => t.seen = version

C13_Witness ==
    /\ received = 2
    /\ version = 1
    /\ \E t \in tasks : t.pc = "suspended" /\ t.id = 2 /\ t.seen = 1

\* C14: the ingress loop does not block on a handler: while a handler is
\* suspended the loop can receive the next notification.
C14_LoopDoesNotBlock ==
    (/\ loop = "running"
     /\ received < MaxNotifications
     /\ \E t \in tasks : t.pc = "suspended")
    => ENABLED (\E m \in Notifications : Receive(m))

\* C15: a notification that fails an ingress step before the dispatch is
\* only dropped; the loop keeps running.
C15_IngressErrorOnlyDrops ==
    (Examined /\ notif.fate \notin Dispatched) => loop = "running"

\* C16: a gift wrap whose signature verification fails never reaches a
\* handler.
C16_BadSignatureRejected ==
    (Examined /\ ~notif.m.sig) => notif.fate \notin Dispatched

\* C17: a message whose rumor is older than the 10 s window is dropped
\* before any handler runs: no handler is started, the order is not written
\* and the loop keeps running.
C17_StaleDropped ==
    (/\ Examined
     /\ notif.m.unwrap
     /\ notif.m.created_at + FreshnessWindow < Clock)
    => /\ notif.fate \notin Dispatched
       /\ tasks = {}
       /\ version = notif.version
       /\ loop = "running"

C17_Witness ==
    /\ notif.fate = "drop_stale"
    /\ notif.m.sig
    /\ notif.m.verify
    /\ notif.m.action = "Cancel"
    /\ notif.m.created_at = Clock - (FreshnessWindow + 1)
    /\ version = 1

\* C18: whatever error the handling of a dispatched message returns or
\* raises, the loop keeps running.
C18_HandlerErrorsStayInside ==
    (Examined /\ notif.fate \in Dispatched) => loop # "panicked"

\* C19: a message whose action has no handler (PayInvoice included) is
\* logged and dropped: no handler starts, the order is not written and the
\* loop keeps running.
C19_UnhandledActionDropped ==
    (/\ notif.fate \in Dispatched
     /\ notif.m.action \notin HandlerActions)
    => /\ notif.fate = "logged"
       /\ tasks = {}
       /\ version = notif.version
       /\ loop = "running"

\* ------------------------------------------------------- order_action claims

\* The quotes order_action checked that lie outside the configured range.
QuotesOutside ==
    { i \in DOMAIN placed.quotes :
        \/ placed.quotes[i] < settings.min_payment_amount
        \/ placed.quotes[i] > settings.max_order_amount }

\* C20 as stated: a NewOrder is published only if every quote checked lies
\* in [min_payment_amount, max_order_amount]; a quote outside is answered
\* with CantDo(OutOfRangeSatsAmount) and no order is created.
C20_OutOfRangeAnswered ==
    /\ placed.published => QuotesOutside = {}
    /\ QuotesOutside # {}
       => ~placed.published /\ placed.reply = "OutOfRangeSatsAmount"

\* C20 amended: a NewOrder is published only if the quote of its fiat
\* amount, or of both endpoints of its range, was checked and lies in
\* [min_payment_amount, max_order_amount]; a quote outside creates no order
\* and is answered with CantDo(OutOfRangeSatsAmount), or with
\* CantDo(InvalidAmount) when it is negative.
C20_QuotesInRange ==
    /\ placed.published
       => /\ Len(placed.quotes) = Len(AmountVec(request))
          /\ \A i \in DOMAIN placed.quotes :
                /\ placed.quotes[i] = Quote(request, i)
                /\ placed.quotes[i] >= settings.min_payment_amount
                /\ placed.quotes[i] <= settings.max_order_amount
    /\ QuotesOutside # {}
       => /\ ~placed.published
          /\ QuotesOutside = {Len(placed.quotes)}
          /\ placed.reply = IF placed.quotes[Len(placed.quotes)] < 0
                            THEN "InvalidAmount"
                            ELSE "OutOfRangeSatsAmount"

C20_Witness ==
    /\ IsRange(request)
    /\ placed.published
    /\ Len(placed.quotes) = 2
    /\ placed.quotes[1] = settings.min_payment_amount
    /\ placed.quotes[2] = settings.max_order_amount
    /\ placed.quotes[1] < placed.quotes[2]

C20_WitnessRejected ==
    /\ IsRange(request)
    /\ ~placed.published
    /\ placed.reply = "OutOfRangeSatsAmount"
    /\ QuotesOutside = {2}

\* The request handled carries both min_amount and max_amount.
RangeRequest ==
    /\ placed.ret # "none"
    /\ request.has_order
    /\ request.min_amount # Absent
    /\ request.max_amount # Absent

\* C21: a range NewOrder is published only if min_amount < max_amount and
\* amount = 0; otherwise no quote is made, no order is created and the
\* sender gets CantDo(InvalidAmount).
C21_RangeOrderValidated ==
    RangeRequest
    => /\ placed.published
          => /\ request.min_amount[1] < request.max_amount[1]
             /\ request.amount = 0
       /\ (request.min_amount[1] >= request.max_amount[1] \/ request.amount # 0)
          => /\ ~placed.published
             /\ placed.quotes = <<>>
             /\ placed.reply = "InvalidAmount"

C21_Witness ==
    /\ RangeRequest
    /\ request.invoice_ok
    /\ request.min_amount = request.max_amount
    /\ request.amount = 0
    /\ request.price # Absent
    /\ placed.reply = "InvalidAmount"
    /\ ~placed.published

C21_WitnessAmount ==
    /\ RangeRequest
    /\ request.invoice_ok
    /\ request.min_amount[1] < request.max_amount[1]
    /\ request.amount = 1
    /\ request.premium = 0
    /\ placed.reply = "InvalidAmount"
    /\ ~placed.published

\* ----------------------------------------------- further Cancel claims

\* The last Cancel came from a party of a taken order that is not yet Active
\* who is not the one the sub-handler lets cancel: the seller of a Sell order
\* in WaitingBuyerInvoice, the buyer of a Buy order in WaitingPayment.
WrongRoleCase ==
    /\ Handled
    /\ \/ /\ last.pre.kind = "Sell"
          /\ last.pre.status = "WaitingBuyerInvoice"
          /\ last.pre.buyer_pubkey # None
          /\ last.user_pubkey = last.pre.seller_pubkey
       \/ /\ last.pre.kind = "Buy"
          /\ last.pre.status = "WaitingPayment"
          /\ last.pre.seller_pubkey # None
          /\ last.user_pubkey = last.pre.buyer_pubkey

\* C22: a Cancel rejected for a wrong role is answered with CantDo and
\* changes nothing: the stored order is as before, no event is published
\* and no cancel of the hold invoice is issued.
C22_WrongRoleChangesNothing ==
    WrongRoleCase
    => /\ order = last.pre
       /\ EffectsOfType("cancel_hold_invoice") = {}
       /\ EffectsOfType("publish") = {}
       /\ last.ret = "ok"
          => \E i \in EffectsOfType("send") :
                /\ last.effects[i].action = "CantDo"
                /\ last.effects[i].to = last.user_pubkey

\* The order event most recently published for the order.
LatestEvent == events[Len(events)]

\* C23: after a Cancel handler that published a new order event completes
\* with no backend call failing, the stored event_id is the id of the most
\* recently published event and the stored status is the status it carries.
C23_StoredEventIdIsLatest ==
    (/\ Handled
     /\ last.all_ok
     /\ last.ret = "ok"
     /\ EffectsOfType("publish") # {})
    => /\ order.event_id = LatestEvent.id
       /\ order.status = LatestEvent.status

\* Statuses no transition leaves.
TerminalStatuses ==
    { "Canceled", "CooperativelyCanceled", "CanceledByAdmin",
      "Settled", "Completed", "SettledByAdmin", "Expired" }

\* C24: a Cancel on an order in a terminal status changes neither the stored
\* order nor the published events and makes no escrow or database call; on
\* a canceled order the only effect is CantDo(OrderAlreadyCanceled) to the
\* sender, when the sender is a party of the order.
C24_TerminalCancelIsNoOp ==
    (last.ret # "none" /\ last.pre.status \in TerminalStatuses)
    => /\ order = last.pre
       /\ last.ret = "ok" \/ last.order_id = None
       /\ \A i \in 1..Len(last.effects) : last.effects[i].type = "send"
       /\ (/\ Handled
           /\ last.user_pubkey \in Parties(last.pre)
           /\ last.pre.status \in {"Canceled", "CooperativelyCanceled", "CanceledByAdmin"})
          => last.effects = <<send_cant_do_msg("OrderAlreadyCanceled", last.user_pubkey)>>
       /\ (/\ Handled
           /\ last.pre.status \in {"Settled", "Completed", "SettledByAdmin", "Expired"})
          => last.effects = <<>>

\* The creator's Cancel that canceled a Pending order is delivered again.
C24_Witness ==
    /\ events[1].status = "Pending"
    /\ Len(events) = 2
    /\ last.pre.status = "Canceled"
    /\ last.user_pubkey = Maker
    /\ last.order_id = OrderId
    /\ order.status = "Canceled"
    /\ last.effects = <<send_cant_do_msg("OrderAlreadyCanceled", Maker)>>

C24_WitnessCooperative ==
    /\ events[1].status = "Active"
    /\ last.pre.status = "CooperativelyCanceled"
    /\ last.user_pubkey = Taker
    /\ last.effects = <<send_cant_do_msg("OrderAlreadyCanceled", Taker)>>

\* C25: for a Pending order the Canceled notification is sent only if the
\* stored status became Canceled: none is sent when publishing the cancel
\* event or the database update fails.
C25_CanceledOnlyIfPersisted ==
    (/\ Handled
     /\ last.pre.status = "Pending"
     /\ SentActions("Canceled") # {})
    => order.status = "Canceled"

====
